---- MODULE Spec2Model ----
(***************************************************************************)
(* circbuf.h: lock-free SPSC/MPMC circular buffer with per-slot sequence  *)
(* numbers, driven by the producer/consumer threads of circbuf_test.c.    *)
(*                                                                         *)
(* Atomic loads, stores and compare-exchanges on head, tail and seq are    *)
(* one step each (sequentially consistent interleaving).  memcpy is not    *)
(* atomic: it copies one payload cell per step.  The weak compare-exchange *)
(* may fail spuriously.  The uint32_t counters head, tail, seq and pos,    *)
(* and capacity and mask, are modelled modulo 2^W; the uint32_t byte sizes *)
(* slot_size and stride modulo 2^(W+3), so that the rings of the drivers   *)
(* fit their allocation as the ring of the test does.  A payload cell is   *)
(* one byte.  The build defines NDEBUG: the asserts are compiled out and  *)
(* a bad argument reaches the return of -EINVAL.  seq and data are what    *)
(* reads through cb_slot find in the region.                               *)
(***************************************************************************)
EXTENDS Integers, Sequences, FiniteSets, TLC

(* ---------------------------------------------------------------- bounds *)
\* width in bits of head, tail, seq and pos (uint32_t in the source)
W == 3
\* payload cells per slot (cb->slot_size)
SlotSize == 2
\* messages the test passes through the ring (MSG_COUNT)
MSG_COUNT == 4
\* messages of the runs that are checked for termination: more than the ring
\* of the test holds
LiveMsgCount == 3
\* successful pushes the sequential driver makes
MaxPushes == 5
\* messages past 2^W that the wraparound run passes through the ring
WrapExtra == 5
\* regions the allocator hands out in the init / free runs
MaxInits == 2
\* successful pushes between a cb_init and the next in those runs
LifePushes == 2

Mod == 2 ^ W
\* uint32_t for byte sizes: slot_size, stride, capacity * stride
SizeMod == 8 * Mod
\* size_t, twice as wide
WideMod == SizeMod * SizeMod
Capacities == {2, 4}
\* CAPACITY of the test
TestCapacities == {2}
Modes == {"SPSC", "MPMC"}

(* ------------------------------------------------------------- constants *)
RetOk == 0
RetWouldBlock == -1
EINVAL == 22
ENOMEM == 12
\* sizeof(Slot) and _Alignof(Slot): one uint32_t and a flexible array
SizeofSlot == 4
AlignofSlot == 4
\* an indeterminate payload cell (memory the allocator returned, never written)
Indet == -1
\* the errors after which main() stops looking at received_tracker
MaxReported == 10

(* ----------------------------------------------------------------- state *)
VARIABLES
    mode,        \* "MPMC" when CIRCBUF_MPMC is defined, else "SPSC"
    mask,        \* cb->mask
    slot_size,   \* cb->slot_size
    stride,      \* cb->stride
    slots,       \* cb->slots: 0 is NULL, r > 0 the region heap[r], Indet before any cb_init
    alloc,       \* cb->alloc: which of its functions are not NULL
    heap,        \* heap[r] : the r-th region the allocator handed out, and the calls of free on it
    cargs,       \* the arguments of the last cb_init call, and what its allocator answered
    head,        \* cb->head
    tail,        \* cb->tail
    seq,         \* seq[s]  : Slot.seq of slot s
    data,        \* data[s] : Slot.data of slot s, slot_size cells
    pc,          \* pc[t]   : where thread t is
    pos,         \* pos[t]  : local pos of the claim in progress
    out_pos,     \* out_pos[t] : the pos of cb_push / cb_pop that the claim writes through out_pos
    size,        \* size[t] : size argument of the cb_push / cb_pop in progress
    buf,         \* buf[t]  : the caller's buffer (src of push, dst of pop)
    k,           \* k[t]    : cells memcpy has copied so far
    ret,         \* ret[t]  : return value of the last cb_push / cb_pop
    call,        \* call[t] : the last call of thread t: "push", "pop" or "none"
    args,        \* args[t] : ProdArgs / ConsArgs of thread t (start_seq, count)
    i,           \* i[t]    : loop counter of producer() / consumer()
    errors,      \* errors[t] of consumer()
    tracker,     \* received_tracker[]
    pushClaims,  \* pushClaims[p] : successful cb_push_claim calls that returned p
    popClaims,   \* popClaims[p]  : successful cb_pop_claim calls that returned p
    published,   \* published[p]  : cb_push_publish(p) calls
    released,    \* released[p]   : cb_pop_release(p) calls
    sent,        \* sent[p] : cells the producer of position p copied in, until p is released
    put,         \* put[t]  : what the successful cb_push calls of thread t passed, in order
    got          \* got[t]  : what the successful cb_pop calls of thread t returned, in order

\* what no ring operation writes: the build, the fields cb_init sets, the heap
setup  == <<mode, mask, slot_size, stride, slots, alloc, heap, cargs>>
ring   == <<setup, head, tail, seq, data>>
test   == <<args, errors, tracker>>
ghost  == <<pushClaims, popClaims, published, released, sent>>
logs   == <<put, got>>
vars   == <<mode, mask, slot_size, stride, slots, alloc, heap, cargs,
            head, tail, seq, data,
            pc, pos, out_pos, size, buf, k, ret, call, args, i,
            errors, tracker,
            pushClaims, popClaims, published, released, sent, put, got>>

(* --------------------------------------------------------------- threads *)
AllProducers == {"p1", "p2"}
AllConsumers == {"c1", "c2"}
Driver == "main"
Threads == AllProducers \cup AllConsumers \cup {Driver}

\* NUM_PRODUCERS / NUM_CONSUMERS: one of each unless CIRCBUF_MPMC
Producers(m) == IF m = "MPMC" THEN AllProducers ELSE {"p1"}
Consumers(m) == IF m = "MPMC" THEN AllConsumers ELSE {"c1"}
ProdIndex(t) == IF t = "p1" THEN 0 ELSE 1

(* ------------------------------------------------------------ arithmetic *)
\* a value stored in a uint32_t
U32(x) == ((x % Mod) + Mod) % Mod

\* uint32_t msg_per_prod = MSG_COUNT / NUM_PRODUCERS, msg_per_cons = MSG_COUNT / NUM_CONSUMERS
msg_per_thread(m, total) == U32(total \div Cardinality(Producers(m)))
\* prod_args[i] = { .start_seq = i * msg_per_prod, .count = msg_per_prod },
\* cons_args[i] = { .count = msg_per_cons }, all uint32_t
ThreadArgs(m, total) ==
    [t \in Threads |->
        [start_seq |-> U32(ProdIndex(t) * msg_per_thread(m, total)),
         count |-> msg_per_thread(m, total)]]

\* (int32_t)x
S32(x) == IF U32(x) >= Mod \div 2 THEN U32(x) - Mod ELSE U32(x)

RECURSIVE BitAnd(_, _)
BitAnd(a, b) ==
    IF a = 0 \/ b = 0 THEN 0
    ELSE (a % 2) * (b % 2) + 2 * BitAnd(a \div 2, b \div 2)

\* cb_is_power_of_two that lets 1 through
cb_is_power_of_two_ge1(n) == n >= 1 /\ BitAnd(n, n - 1) = 0

cb_is_power_of_two(n) == n >= 2 /\ BitAnd(n, n - 1) = 0

\* a byte size stored in a uint32_t
USize(x) == x % SizeMod

\* ALIGN_UP(val, align), evaluated in size_t
ALIGN_UP(val, align) == BitAnd((val + align - 1) % WideMod, WideMod - 1 - (align - 1))

\* cb->stride as cb_init stores it
cb_init_stride(ssize) == USize(ALIGN_UP(SizeofSlot + ssize, AlignofSlot))

\* capacity * cb->stride, a product of two uint32_t, as the allocator receives it
cb_init_bytes(capacity, st) == USize(capacity * st)

\* byte offset of slot s in the region: s * cb->stride
SlotOffset(s, st) == USize(s * st)

\* cb_push / cb_pop that accept any size
SizeInvalid_never(n) == FALSE

\* cb_push / cb_pop: size > cb->slot_size
SizeInvalid(n) == n > slot_size

\* index of the slot cb_slot(cb, p) returns
cb_slot(p) == BitAnd(p, mask)

\* diff of cb_push_claim
PushDiff(s, p) == S32(s - p)

\* cb_pop_claim with the operands of the difference exchanged
PopDiff_swapped(s, p) == S32(U32(p + 1) - s)

\* diff of cb_pop_claim
PopDiff(s, p) == S32(s - U32(p + 1))

\* cb_push_claim without the full check
PushFull_never(s, p) == FALSE

\* cb_push_claim that also gives up on a free slot (diff <= 0)
PushFull_le(s, p) == IF mode = "MPMC" THEN PushDiff(s, p) <= 0 ELSE s # p

\* cb_push_claim finds the slot not ready: return NULL
PushFull(s, p) == IF mode = "MPMC" THEN PushDiff(s, p) < 0 ELSE s # p

\* cb_pop_claim without the empty check
PopEmpty_never(s, p) == FALSE

\* cb_pop_claim that also gives up on a published slot (diff <= 0)
PopEmpty_le(s, p) == IF mode = "MPMC" THEN PopDiff(s, p) <= 0 ELSE s # U32(p + 1)

\* cb_pop_claim finds the slot not ready: return NULL
PopEmpty(s, p) == IF mode = "MPMC" THEN PopDiff(s, p) < 0 ELSE s # U32(p + 1)

\* cb_push_publish whose pos + 1 does not wrap
PublishSeq_nowrap(p) == p + 1

\* cb_push_publish that stores pos
PublishSeq_same(p) == U32(p)

\* the value cb_push_publish stores
PublishSeq(p) == U32(p + 1)

\* cb_pop_release that stores pos + mask
ReleaseSeq_short(p) == U32(p + mask)

\* the value cb_pop_release stores
ReleaseSeq(p) == U32(p + mask + 1)

\* Message msg = { .seq = seq, .value = (uint64_t)seq * 31337 }
Message(m) == <<m, m * 31337>>
\* sizeof(Message), in cells
MsgSize == Len(Message(0))

\* memcpy that copies the first cell over and over
CopyCell_first(dst, j, src) == [dst EXCEPT ![j] = src[1]]

\* memcpy of cell j
CopyCell(dst, j, src) == [dst EXCEPT ![j] = src[j]]

\* n payload cells the allocator returned and nobody wrote
BlankOf(n) == [j \in 1..n |-> Indet]
Blank == BlankOf(SlotSize)
Bump(f, p) == [f EXCEPT ![p] = @ + 1]

RECURSIVE SumTo(_, _)
SumTo(f, n) == IF n < 0 THEN 0 ELSE f[n] + SumTo(f, n - 1)
\* calls counted by f over all positions
Total(f) == SumTo(f, Mod - 1)

\* the slots whose seq field covers the byte at offset b of the region
SeqFieldsAt(capacity, st, b) ==
    {s \in 0..(capacity - 1) :
        SlotOffset(s, st) <= b /\ b < SlotOffset(s, st) + SizeofSlot}

\* the greatest slot index of a set: the loop of cb_init writes it last
LastOf(S) == CHOOSE s \in S : \A u \in S : u <= s

\* the loop of cb_init: atomic_init(&slot->seq, i) for every slot i at byte
\* offset i * stride, read back through cb_slot: slots at the same offset
\* share the field, which holds the last i written
seq_init(capacity, st) ==
    [s \in 0..(capacity - 1) |-> LastOf(SeqFieldsAt(capacity, st, SlotOffset(s, st)))]

\* the byte at offset b of the region after cb_init: a byte of a seq field
\* (little-endian, the values are below 256), else never written
byte_init(capacity, st, b) ==
    LET S == SeqFieldsAt(capacity, st, b)
    IN IF S = {} THEN Indet
       ELSE IF b = SlotOffset(LastOf(S), st) THEN LastOf(S) ELSE 0

\* slot->data of every slot after cb_init, read through cb_slot: the ssize
\* bytes that follow the seq field of the slot
data_init(capacity, st, ssize) ==
    [s \in 0..(capacity - 1) |->
        [j \in 1..ssize |-> byte_init(capacity, st, SlotOffset(s, st) + SizeofSlot + j - 1)]]

\* every store of the loop of cb_init is inside a region of n bytes
seq_init_inside(capacity, st, n) ==
    \A s \in 0..(capacity - 1) : SlotOffset(s, st) + SizeofSlot <= n

(* ------------------------------------------------------------- allocator *)
\* an Allocator, as far as cb_init and cb_free look at it: which function
\* pointers are not NULL
Allocators == [alloc : BOOLEAN, free : BOOLEAN]
\* malloc_allocator()
malloc_allocator == [alloc |-> TRUE, free |-> TRUE]
\* arena_allocator(&arena) of the test: allocate and free, as the allocator
\* contract lists them
arena_allocator == [alloc |-> TRUE, free |-> TRUE]
\* a region of n bytes that a.alloc returned, not yet passed to a.free
Region(n, a) == [bytes |-> n, owner |-> a, frees |-> 0]
\* a call cb_init(cb, a, capacity, ssize): cb is not NULL; whether it called
\* a.alloc, and the pointer a.alloc returned (0 is NULL)
InitArgs(cb, a, capacity, ssize, called, answer) ==
    [cb |-> cb, alloc |-> a, capacity |-> capacity, slot_size |-> ssize,
     called |-> called, answer |-> answer]

(* ------------------------------------------------------------------ init *)
\* the ring after cb_init(cb, a, capacity, slot_size) returned 0
RingInit(m, a, capacity, ssize) ==
    /\ mode = m
    /\ mask = capacity - 1
    /\ slot_size = ssize
    /\ stride = cb_init_stride(ssize)
    /\ slots = 1
    /\ alloc = a
    /\ heap = <<Region(cb_init_bytes(capacity, cb_init_stride(ssize)), a)>>
    /\ cargs = InitArgs(TRUE, a, capacity, ssize, TRUE, 1)
    /\ head = 0
    /\ tail = 0
    /\ seq = seq_init(capacity, cb_init_stride(ssize))
    /\ data = data_init(capacity, cb_init_stride(ssize), ssize)

GhostInit ==
    /\ pushClaims = [p \in 0..(Mod - 1) |-> 0]
    /\ popClaims = [p \in 0..(Mod - 1) |-> 0]
    /\ published = [p \in 0..(Mod - 1) |-> 0]
    /\ released = [p \in 0..(Mod - 1) |-> 0]
    /\ sent = [p \in 0..(Mod - 1) |-> <<>>]
    /\ put = [t \in Threads |-> <<>>]
    /\ got = [t \in Threads |-> <<>>]

\* the threads of running are between two calls, those of joining wait in
\* pthread_join, the others were never created
LocalsInit(running, joining, m, total) ==
    /\ pc = [t \in Threads |-> IF t \in running THEN "idle"
                                ELSE IF t \in joining THEN "join" ELSE "off"]
    /\ pos = [t \in Threads |-> 0]
    /\ out_pos = [t \in Threads |-> Indet]
    /\ size = [t \in Threads |-> 0]
    /\ buf = [t \in Threads |-> Blank]
    /\ k = [t \in Threads |-> 0]
    /\ ret = [t \in Threads |-> 1]
    /\ call = [t \in Threads |-> "none"]
    /\ i = [t \in Threads |-> 0]
    /\ args = ThreadArgs(m, total)
    /\ errors = [t \in Threads |-> 0]
    /\ tracker = [n \in 0..(total - 1) |-> 0]

\* main() of circbuf_test.c once the threads are created, for MSG_COUNT =
\* total: main is about to join them
TestInit(total) ==
    /\ \E m \in Modes, capacity \in TestCapacities :
          /\ RingInit(m, arena_allocator, capacity, SlotSize)
          /\ LocalsInit(Producers(m) \cup Consumers(m), {Driver}, m, total)
    /\ GhostInit

Init == TestInit(MSG_COUNT)

(* ------------------------------------------------------------- producers *)
\* cb_push up to the first load of cb_push_claim
cb_push_enter(t, b, n) ==
    /\ call' = [call EXCEPT ![t] = "push"]
    /\ buf' = [buf EXCEPT ![t] = b]
    /\ size' = [size EXCEPT ![t] = n]
    /\ k' = [k EXCEPT ![t] = 0]
    /\ out_pos' = [out_pos EXCEPT ![t] = Indet]
    /\ IF SizeInvalid(n)
       THEN /\ ret' = [ret EXCEPT ![t] = -EINVAL]
            /\ pc' = [pc EXCEPT ![t] = "idle"]
            /\ pos' = pos
       ELSE /\ pos' = [pos EXCEPT ![t] = head]
            /\ pc' = [pc EXCEPT ![t] = "push_seq"]
            /\ ret' = ret

\* producer(): the for / while loop around cb_push
producer(t) ==
    /\ pc[t] = "idle"
    /\ t \in AllProducers
    /\ LET n == IF ret[t] = RetOk THEN U32(i[t] + 1) ELSE i[t]
       IN /\ i' = [i EXCEPT ![t] = n]
          /\ IF n >= args[t].count
             THEN /\ pc' = [pc EXCEPT ![t] = "done"]
                  /\ UNCHANGED <<pos, out_pos, size, buf, k, ret, call>>
             ELSE cb_push_enter(t, Message(U32(args[t].start_seq + n)), MsgSize)
    /\ UNCHANGED <<ring, test, ghost>>

\* cb_push_claim: load slot->seq and branch on it
cb_push_claim_seq(t) ==
    /\ pc[t] = "push_seq"
    /\ LET s == seq[cb_slot(pos[t])]
       IN IF PushFull(s, pos[t])
          THEN /\ ret' = [ret EXCEPT ![t] = RetWouldBlock]
               /\ pc' = [pc EXCEPT ![t] = "idle"]
          ELSE /\ ret' = ret
               /\ pc' = [pc EXCEPT ![t] =
                           IF mode = "SPSC" THEN "push_store"
                           ELSE IF PushDiff(s, pos[t]) = 0 THEN "push_cas"
                           ELSE "push_reload"]
    /\ UNCHANGED <<ring, pos, out_pos, size, buf, k, call, i, test, ghost>>

\* cb_push_claim returns the slot: *out_pos = pos
PushClaimed(t) ==
    /\ pc' = [pc EXCEPT ![t] = "push_copy"]
    /\ out_pos' = [out_pos EXCEPT ![t] = pos[t]]
    /\ pushClaims' = Bump(pushClaims, pos[t])
    /\ UNCHANGED <<setup, tail, seq, data>>
    /\ UNCHANGED <<pos, size, buf, k, ret, call, i, test>>
    /\ UNCHANGED <<popClaims, published, released, sent>>

\* cb_push_claim that stores head + 1 without comparing
cb_push_claim_cas_blind(t) ==
    /\ pc[t] = "push_cas"
    /\ head' = U32(pos[t] + 1)
    /\ PushClaimed(t)

\* cb_push_claim, MPMC: the compare-exchange on head succeeds
cb_push_claim_cas(t) ==
    /\ pc[t] = "push_cas"
    /\ head = pos[t]
    /\ head' = U32(pos[t] + 1)
    /\ PushClaimed(t)

\* cb_push_claim, MPMC: the weak compare-exchange fails, because head moved
\* or spuriously, and leaves the current head in pos
cb_push_claim_cas_fail(t) ==
    /\ pc[t] = "push_cas"
    /\ pos' = [pos EXCEPT ![t] = head]
    /\ pc' = [pc EXCEPT ![t] = "push_seq"]
    /\ UNCHANGED <<ring, out_pos, size, buf, k, ret, call, i, test, ghost>>

\* cb_push_claim, MPMC: diff > 0, reload head
cb_push_claim_reload(t) ==
    /\ pc[t] = "push_reload"
    /\ pos' = [pos EXCEPT ![t] = head]
    /\ pc' = [pc EXCEPT ![t] = "push_seq"]
    /\ UNCHANGED <<ring, out_pos, size, buf, k, ret, call, i, test, ghost>>

\* cb_push_claim, SPSC: store head
cb_push_claim_store(t) ==
    /\ pc[t] = "push_store"
    /\ head' = U32(pos[t] + 1)
    /\ PushClaimed(t)

\* cb_push: memcpy(slot_data, data, size), one cell
cb_push_memcpy(t) ==
    /\ pc[t] = "push_copy"
    /\ k[t] < size[t]
    /\ data' = [data EXCEPT ![cb_slot(pos[t])] = CopyCell(@, k[t] + 1, buf[t])]
    /\ k' = [k EXCEPT ![t] = @ + 1]
    /\ UNCHANGED <<setup, head, tail, seq>>
    /\ UNCHANGED <<pc, pos, out_pos, size, buf, ret, call, i, test, ghost>>

\* cb_push_publish, and cb_push returns 0
cb_push_publish(t) ==
    /\ pc[t] = "push_copy"
    /\ k[t] = size[t]
    /\ seq' = [seq EXCEPT ![cb_slot(out_pos[t])] = PublishSeq(out_pos[t])]
    /\ ret' = [ret EXCEPT ![t] = RetOk]
    /\ pc' = [pc EXCEPT ![t] = "idle"]
    /\ published' = Bump(published, pos[t])
    /\ sent' = [sent EXCEPT ![pos[t]] = SubSeq(buf[t], 1, size[t])]
    /\ UNCHANGED <<setup, head, tail, data>>
    /\ UNCHANGED <<pos, out_pos, size, buf, k, call, i, test>>
    /\ UNCHANGED <<pushClaims, popClaims, released>>

(* ------------------------------------------------------------- consumers *)
\* cb_pop up to the first load of cb_pop_claim
cb_pop_enter(t, n) ==
    /\ call' = [call EXCEPT ![t] = "pop"]
    /\ size' = [size EXCEPT ![t] = n]
    /\ k' = [k EXCEPT ![t] = 0]
    /\ out_pos' = [out_pos EXCEPT ![t] = Indet]
    /\ IF SizeInvalid(n)
       THEN /\ ret' = [ret EXCEPT ![t] = -EINVAL]
            /\ pc' = [pc EXCEPT ![t] = "idle"]
            /\ pos' = pos
       ELSE /\ pos' = [pos EXCEPT ![t] = tail]
            /\ pc' = [pc EXCEPT ![t] = "pop_seq"]
            /\ ret' = ret

\* cb_pop_claim: load slot->seq and branch on it
cb_pop_claim_seq(t) ==
    /\ pc[t] = "pop_seq"
    /\ LET s == seq[cb_slot(pos[t])]
       IN IF PopEmpty(s, pos[t])
          THEN /\ ret' = [ret EXCEPT ![t] = RetWouldBlock]
               /\ pc' = [pc EXCEPT ![t] = "idle"]
          ELSE /\ ret' = ret
               /\ pc' = [pc EXCEPT ![t] =
                           IF mode = "SPSC" THEN "pop_store"
                           ELSE IF PopDiff(s, pos[t]) = 0 THEN "pop_cas"
                           ELSE "pop_reload"]
    /\ UNCHANGED <<ring, pos, out_pos, size, buf, k, call, i, test, ghost>>

\* cb_pop_claim returns the slot: *out_pos = pos
PopClaimed(t) ==
    /\ pc' = [pc EXCEPT ![t] = "pop_copy"]
    /\ out_pos' = [out_pos EXCEPT ![t] = pos[t]]
    /\ popClaims' = Bump(popClaims, pos[t])
    /\ UNCHANGED <<setup, head, seq, data>>
    /\ UNCHANGED <<pos, size, buf, k, ret, call, i, test>>
    /\ UNCHANGED <<pushClaims, published, released, sent>>

\* cb_pop_claim, MPMC: the compare-exchange on tail succeeds
cb_pop_claim_cas(t) ==
    /\ pc[t] = "pop_cas"
    /\ tail = pos[t]
    /\ tail' = U32(pos[t] + 1)
    /\ PopClaimed(t)

\* cb_pop_claim, MPMC: the weak compare-exchange fails, because tail moved
\* or spuriously, and leaves the current tail in pos
cb_pop_claim_cas_fail(t) ==
    /\ pc[t] = "pop_cas"
    /\ pos' = [pos EXCEPT ![t] = tail]
    /\ pc' = [pc EXCEPT ![t] = "pop_seq"]
    /\ UNCHANGED <<ring, out_pos, size, buf, k, ret, call, i, test, ghost>>

\* cb_pop_claim, MPMC: diff > 0, reload tail
cb_pop_claim_reload(t) ==
    /\ pc[t] = "pop_reload"
    /\ pos' = [pos EXCEPT ![t] = tail]
    /\ pc' = [pc EXCEPT ![t] = "pop_seq"]
    /\ UNCHANGED <<ring, out_pos, size, buf, k, ret, call, i, test, ghost>>

\* cb_pop_claim, SPSC: store tail
cb_pop_claim_store(t) ==
    /\ pc[t] = "pop_store"
    /\ tail' = U32(pos[t] + 1)
    /\ PopClaimed(t)

\* cb_pop: memcpy(data, slot_data, size), one cell
cb_pop_memcpy(t) ==
    /\ pc[t] = "pop_copy"
    /\ k[t] < size[t]
    /\ buf' = [buf EXCEPT ![t] = CopyCell(@, k[t] + 1, data[cb_slot(pos[t])])]
    /\ k' = [k EXCEPT ![t] = @ + 1]
    /\ UNCHANGED <<ring, pc, pos, out_pos, size, ret, call, i, test, ghost>>

\* cb_pop_release, and cb_pop returns 0
cb_pop_release(t) ==
    /\ pc[t] = "pop_copy"
    /\ k[t] = size[t]
    /\ seq' = [seq EXCEPT ![cb_slot(out_pos[t])] = ReleaseSeq(out_pos[t])]
    /\ ret' = [ret EXCEPT ![t] = RetOk]
    /\ pc' = [pc EXCEPT ![t] = "idle"]
    /\ released' = Bump(released, pos[t])
    /\ sent' = [sent EXCEPT ![pos[t]] = <<>>]
    /\ UNCHANGED <<setup, head, tail, data>>
    /\ UNCHANGED <<pos, out_pos, size, buf, k, call, i, test>>
    /\ UNCHANGED <<pushClaims, popClaims, published>>

\* consumer(): the for / while loop around cb_pop, and the checks on msg
consumer(t) ==
    /\ pc[t] = "idle"
    /\ t \in AllConsumers
    /\ LET ok == ret[t] = RetOk
           n == IF ok THEN U32(i[t] + 1) ELSE i[t]
           m == buf[t][1]
           bad == buf[t][2] # m * 31337
           dup == m \in DOMAIN tracker /\ tracker[m] # 0
       IN /\ i' = [i EXCEPT ![t] = n]
          /\ errors' = IF ok /\ (bad \/ dup)
                       THEN [errors EXCEPT ![t] = @ + 1] ELSE errors
          /\ tracker' = IF ok /\ ~bad /\ m \in DOMAIN tracker
                        THEN Bump(tracker, m) ELSE tracker
          /\ IF n >= args[t].count
             THEN /\ pc' = [pc EXCEPT ![t] = "done"]
                  /\ UNCHANGED <<pos, out_pos, size, k, ret, call>>
             ELSE cb_pop_enter(t, MsgSize)
    /\ UNCHANGED <<buf, args, ring, ghost>>

(* ------------------------------------------------------------- cb_free *)
\* cb_free that calls alloc.free and keeps the pointer
cb_free_keep(t, cb) ==
    /\ pc[t] = "idle"
    /\ call' = [call EXCEPT ![t] = "free"]
    /\ IF ~cb \/ slots = 0
       THEN UNCHANGED <<slots, heap>>
       ELSE /\ heap' = IF alloc.free
                       THEN [heap EXCEPT ![slots].frees = @ + 1] ELSE heap
            /\ slots' = slots
    /\ UNCHANGED <<mode, mask, slot_size, stride, alloc, cargs>>
    /\ UNCHANGED <<head, tail, seq, data, ghost>>
    /\ UNCHANGED <<pc, pos, out_pos, size, buf, k, ret, i, test, logs>>

\* cb_free(cb) called by thread t; cb is FALSE for a NULL handle
cb_free(t, cb) ==
    /\ pc[t] = "idle"
    /\ call' = [call EXCEPT ![t] = "free"]
    /\ IF ~cb \/ slots = 0
       THEN UNCHANGED <<slots, heap>>
       ELSE /\ heap' = IF alloc.free
                       THEN [heap EXCEPT ![slots].frees = @ + 1] ELSE heap
            /\ slots' = 0
    /\ UNCHANGED <<mode, mask, slot_size, stride, alloc, cargs>>
    /\ UNCHANGED <<head, tail, seq, data, ghost>>
    /\ UNCHANGED <<pc, pos, out_pos, size, buf, k, ret, i, test, logs>>

(* ------------------------------------------- main() after the threads *)
Running == Producers(mode) \cup Consumers(mode)

\* the threads main() joins, in the order of its two loops
JoinOrder(m) == IF m = "MPMC" THEN <<"p1", "p2", "c1", "c2">> ELSE <<"p1", "c1">>

RECURSIVE tracker_check(_, _, _)
\* the loop over received_tracker from index n on, with e errors so far: an
\* entry that is not 1 is an error, and the loop breaks at more than
\* MaxReported.  The error counts are uint32_t far below 2^32: they are
\* counted as they are, not modulo 2^W
tracker_check(tr, n, e) ==
    IF n \notin DOMAIN tr THEN e
    ELSE IF tr[n] = 1 THEN tracker_check(tr, n + 1, e)
    ELSE IF e + 1 > MaxReported THEN e + 1
    ELSE tracker_check(tr, n + 1, e + 1)

\* main(): one pthread_join, of the next thread of the two loops (i[main]
\* counts the threads joined); total_errors (errors[main]) adds up what the
\* consumers returned
main_join(t) ==
    /\ t = Driver
    /\ pc[t] = "join"
    /\ LET u == JoinOrder(mode)[i[t] + 1]
       IN /\ pc[u] = "done"
          /\ errors' = [errors EXCEPT ![t] =
                           IF u \in AllConsumers THEN @ + errors[u] ELSE @]
          /\ i' = [i EXCEPT ![t] = @ + 1]
          /\ pc' = [pc EXCEPT ![t] =
                       IF i[t] + 1 = Len(JoinOrder(mode)) THEN "check" ELSE "join"]
    /\ UNCHANGED <<ring, pos, out_pos, size, buf, k, ret, call, args, tracker, ghost>>

\* main(): the loop over received_tracker
main_check(t) ==
    /\ t = Driver
    /\ pc[t] = "check"
    /\ errors' = [errors EXCEPT ![t] = tracker_check(tracker, 0, @)]
    /\ pc' = [pc EXCEPT ![t] = "idle"]
    /\ UNCHANGED <<ring, pos, out_pos, size, buf, k, ret, call, args, i, tracker, ghost>>

\* main(): cb_free(&cb)
main_free(t) ==
    /\ t = Driver
    /\ call[t] = "none"
    /\ cb_free(t, TRUE)

\* main(): arena_free(&arena); the handle is not touched
main_arena_free(t) ==
    /\ t = Driver
    /\ pc[t] = "idle"
    /\ call[t] = "free"
    /\ call' = [call EXCEPT ![t] = "arena_free"]
    /\ UNCHANGED <<ring, pc, pos, out_pos, size, buf, k, ret, i, test, ghost>>

\* main(): return (total_errors != 0)
main_return(t) ==
    /\ t = Driver
    /\ pc[t] = "idle"
    /\ call[t] = "arena_free"
    /\ ret' = [ret EXCEPT ![t] = IF errors[t] # 0 THEN 1 ELSE 0]
    /\ pc' = [pc EXCEPT ![t] = "done"]
    /\ UNCHANGED <<ring, pos, out_pos, size, buf, k, call, i, test, ghost>>

(* ------------------------------------------------- threads of the test *)
\* cb_push returned 0 to thread t
LogPush(t) == put' = [put EXCEPT ![t] = Append(@, SubSeq(buf[t], 1, size[t]))]

\* cb_pop returned 0 to thread t
LogPop(t) == got' = [got EXCEPT ![t] = Append(@, SubSeq(buf[t], 1, size[t]))]

\* one step of thread t
Step(t) ==
        \/ producer(t) /\ UNCHANGED logs
        \/ cb_push_claim_seq(t) /\ UNCHANGED logs
        \/ cb_push_claim_cas(t) /\ UNCHANGED logs
        \/ cb_push_claim_cas_fail(t) /\ UNCHANGED logs
        \/ cb_push_claim_reload(t) /\ UNCHANGED logs
        \/ cb_push_claim_store(t) /\ UNCHANGED logs
        \/ cb_push_memcpy(t) /\ UNCHANGED logs
        \/ cb_push_publish(t) /\ LogPush(t) /\ got' = got
        \/ consumer(t) /\ UNCHANGED logs
        \/ cb_pop_claim_seq(t) /\ UNCHANGED logs
        \/ cb_pop_claim_cas(t) /\ UNCHANGED logs
        \/ cb_pop_claim_cas_fail(t) /\ UNCHANGED logs
        \/ cb_pop_claim_reload(t) /\ UNCHANGED logs
        \/ cb_pop_claim_store(t) /\ UNCHANGED logs
        \/ cb_pop_memcpy(t) /\ UNCHANGED logs
        \/ cb_pop_release(t) /\ LogPop(t) /\ put' = put
        \/ main_join(t) /\ UNCHANGED logs
        \/ main_check(t) /\ UNCHANGED logs
        \/ main_free(t)
        \/ main_arena_free(t) /\ UNCHANGED logs
        \/ main_return(t) /\ UNCHANGED logs

Next == \E t \in Threads : Step(t)

Spec == Init /\ [][Next]_vars

\* every thread keeps being scheduled; nothing is assumed of the weak
\* compare-exchange, which may fail every time
Fairness == \A t \in Threads : WF_vars(Step(t))

\* the test with LiveMsgCount messages: the producer of the SPSC build has
\* more messages than the ring has slots, finds the ring full and retries
LiveInit == TestInit(LiveMsgCount)

LiveSpec == LiveInit /\ [][Next]_vars /\ Fairness


(* ------------------------------------------- one thread, call after call *)
\* the payload of the driver's push number c: cells no other push carries
DriverBuffer(c) == [j \in 1..SlotSize |-> c * SlotSize + j]

\* a single thread calls cb_push(cb, b, n)
driver_push(t) ==
    /\ pc[t] = "idle"
    /\ t = Driver
    /\ Total(pushClaims) < MaxPushes
    /\ \E n \in 0..(SlotSize + 1) :
          cb_push_enter(t, DriverBuffer(Total(pushClaims)), n)
    /\ UNCHANGED <<ring, i, test, ghost>>

\* a single thread calls cb_pop(cb, x, n) with a fresh x and the n of its last call
driver_pop(t) ==
    /\ pc[t] = "idle"
    /\ t = Driver
    /\ buf' = [buf EXCEPT ![t] = Blank]
    /\ cb_pop_enter(t, size[t])
    /\ UNCHANGED <<ring, i, test, ghost>>

InitSeq ==
    /\ \E m \in Modes, capacity \in Capacities :
          RingInit(m, malloc_allocator, capacity, SlotSize)
    /\ LocalsInit({Driver}, {}, "SPSC", 1)
    /\ GhostInit

NextSeq ==
    \E t \in {Driver} :
        /\ \/ driver_push(t)
           \/ cb_push_claim_seq(t)
           \/ cb_push_claim_cas(t)
           \/ cb_push_claim_cas_fail(t)
           \/ cb_push_claim_store(t)
           \/ cb_push_memcpy(t)
           \/ cb_push_publish(t)
           \/ driver_pop(t)
           \/ cb_pop_claim_seq(t)
           \/ cb_pop_claim_cas(t)
           \/ cb_pop_claim_cas_fail(t)
           \/ cb_pop_claim_store(t)
           \/ cb_pop_memcpy(t)
           \/ cb_pop_release(t)
        /\ UNCHANGED logs

SpecSeq == InitSeq /\ [][NextSeq]_vars

(* ------------------------------------------------- cb_init and cb_free *)
\* the test of cb_init that leads to return (-EINVAL)
InitRejects(cb, a, capacity, ssize) ==
    ~cb \/ ~a.alloc \/ ~cb_is_power_of_two(capacity) \/ ssize = 0

\* cb_init(cb, a, capacity, ssize) called by thread t; cb is FALSE for a NULL
\* handle, fail is TRUE when a.alloc returns NULL.  A store of the loop that
\* is outside the region is undefined: it lands in the memory behind the
\* region and cb_init returns 0, or the thread traps and the call never
\* returns (ret is indeterminate)
cb_init(t, cb, a, capacity, ssize, fail) ==
    /\ pc[t] = "idle"
    /\ call' = [call EXCEPT ![t] = "init"]
    /\ cargs' = InitArgs(cb, a, capacity, ssize, ~InitRejects(cb, a, capacity, ssize),
                         IF InitRejects(cb, a, capacity, ssize) \/ fail
                         THEN 0 ELSE Len(heap) + 1)
    /\ IF InitRejects(cb, a, capacity, ssize)
       THEN /\ ret' = [ret EXCEPT ![t] = -EINVAL]
            /\ UNCHANGED <<mask, slot_size, stride, slots, alloc, heap>>
            /\ UNCHANGED <<head, tail, seq, data, ghost, pc>>
       ELSE /\ stride' = cb_init_stride(ssize)
            /\ alloc' = a
            /\ slot_size' = ssize
            /\ mask' = capacity - 1
            /\ IF fail
               THEN /\ slots' = 0
                    /\ ret' = [ret EXCEPT ![t] = -ENOMEM]
                    /\ UNCHANGED <<heap, head, tail, seq, data, ghost, pc>>
               ELSE /\ heap' = Append(heap, Region(cb_init_bytes(capacity, stride'), a))
                    /\ slots' = Len(heap')
                    /\ \E lands \in IF seq_init_inside(capacity, stride',
                                                       cb_init_bytes(capacity, stride'))
                                     THEN {TRUE} ELSE BOOLEAN :
                          IF lands
                          THEN /\ seq' = seq_init(capacity, stride')
                               /\ data' = data_init(capacity, stride', ssize)
                               /\ head' = 0
                               /\ tail' = 0
                               /\ ret' = [ret EXCEPT ![t] = RetOk]
                               /\ pc' = pc
                               /\ pushClaims' = [p \in 0..(Mod - 1) |-> 0]
                               /\ popClaims' = [p \in 0..(Mod - 1) |-> 0]
                               /\ published' = [p \in 0..(Mod - 1) |-> 0]
                               /\ released' = [p \in 0..(Mod - 1) |-> 0]
                               /\ sent' = [p \in 0..(Mod - 1) |-> <<>>]
                          ELSE /\ ret' = [ret EXCEPT ![t] = Indet]
                               /\ pc' = [pc EXCEPT ![t] = "trapped"]
                               /\ UNCHANGED <<head, tail, seq, data, ghost>>
    /\ UNCHANGED <<mode, pos, out_pos, size, buf, k, i, test, logs>>

\* CircularBuffer cb; before any cb_init: every field is indeterminate, the
\* allocator has handed out nothing
FreshInit ==
    /\ mode \in Modes
    /\ mask = Indet /\ slot_size = Indet /\ stride = Indet
    /\ slots = Indet /\ alloc = Indet
    /\ heap = <<>>
    /\ cargs = InitArgs(FALSE, malloc_allocator, 0, 0, FALSE, 0)
    /\ head = Indet /\ tail = Indet
    /\ seq = <<>> /\ data = <<>>
    /\ LocalsInit({Driver}, {}, "SPSC", 1)
    /\ GhostInit

(* ------------------------------------ cb_init once, on any arguments *)
init_once(t) ==
    /\ t = Driver
    /\ call[t] = "none"
    /\ \E cb \in BOOLEAN, a \in Allocators, fail \in BOOLEAN,
          capacity \in 0..(Mod - 1), ssize \in 0..(SizeMod - 1) :
          cb_init(t, cb, a, capacity, ssize, fail)

NextInit == \E t \in {Driver} : init_once(t)

SpecInit == FreshInit /\ [][NextInit]_vars

(* --------------------- cb_init, pushes and pops, cb_free, and again *)
\* the ring is constructed: cb->slots points to a region
Live == slots # Indet /\ slots # 0

\* cb_init on a handle that holds no region, or with a capacity it rejects
life_init(t) ==
    /\ t = Driver
    /\ \E a \in {x \in Allocators : x.alloc}, fail \in BOOLEAN,
          capacity \in Capacities \cup {3} :
          /\ IF InitRejects(TRUE, a, capacity, SlotSize)
             THEN a = malloc_allocator /\ ~fail
             ELSE ~Live /\ (fail \/ Len(heap) < MaxInits)
          /\ cb_init(t, TRUE, a, capacity, SlotSize, fail)

\* cb_free on a handle that cb_init has written, with no operation in flight
life_free(t) ==
    /\ t = Driver
    /\ slots # Indet
    /\ \E cb \in BOOLEAN : cb_free(t, cb)

\* cb_push(cb, b, slot_size) on the constructed ring
life_push(t) ==
    /\ t = Driver
    /\ pc[t] = "idle"
    /\ Live
    /\ Total(pushClaims) < LifePushes
    /\ cb_push_enter(t, DriverBuffer(Total(pushClaims)), slot_size)
    /\ UNCHANGED <<ring, i, test, ghost>>

\* cb_pop(cb, x, slot_size) on the constructed ring, with a fresh x
life_pop(t) ==
    /\ t = Driver
    /\ pc[t] = "idle"
    /\ Live
    /\ buf' = [buf EXCEPT ![t] = Blank]
    /\ cb_pop_enter(t, slot_size)
    /\ UNCHANGED <<ring, i, test, ghost>>

NextLife ==
    \E t \in {Driver} :
        /\ \/ life_init(t)
           \/ life_free(t)
           \/ life_push(t)
           \/ cb_push_claim_seq(t)
           \/ cb_push_claim_cas(t)
           \/ cb_push_claim_cas_fail(t)
           \/ cb_push_claim_store(t)
           \/ cb_push_memcpy(t)
           \/ cb_push_publish(t)
           \/ life_pop(t)
           \/ cb_pop_claim_seq(t)
           \/ cb_pop_claim_cas(t)
           \/ cb_pop_claim_cas_fail(t)
           \/ cb_pop_claim_store(t)
           \/ cb_pop_memcpy(t)
           \/ cb_pop_release(t)
        /\ UNCHANGED logs

SpecLife == FreshInit /\ [][NextLife]_vars

(* ------------------- a pushing and a popping thread, past 2^W messages *)
\* successful pushes of the run: more than head, tail and seq can count
WrapCount == Mod + WrapExtra

\* a ring of either build after cb_init, and two threads that have called nothing
WrapInit ==
    /\ \E m \in Modes, capacity \in Capacities :
          RingInit(m, malloc_allocator, capacity, SlotSize)
    /\ LocalsInit({"p1", "c1"}, {}, "SPSC", 1)
    /\ GhostInit

\* the pushing thread calls cb_push(cb, b, slot_size), again after WouldBlock
wrap_push(t) ==
    /\ pc[t] = "idle"
    /\ t = "p1"
    /\ Len(put[t]) < WrapCount
    /\ cb_push_enter(t, DriverBuffer(Len(put[t])), slot_size)
    /\ UNCHANGED <<ring, i, test, ghost>>

\* the popping thread calls cb_pop(cb, x, slot_size) with a fresh x
wrap_pop(t) ==
    /\ pc[t] = "idle"
    /\ t = "c1"
    /\ buf' = [buf EXCEPT ![t] = Blank]
    /\ cb_pop_enter(t, slot_size)
    /\ UNCHANGED <<ring, i, test, ghost>>

\* one step of thread t when no other producer or consumer runs beside it
StepWrap(t) ==
        \/ wrap_push(t) /\ UNCHANGED logs
        \/ cb_push_claim_seq(t) /\ UNCHANGED logs
        \/ cb_push_claim_cas(t) /\ UNCHANGED logs
        \/ cb_push_claim_cas_fail(t) /\ UNCHANGED logs
        \/ cb_push_claim_store(t) /\ UNCHANGED logs
        \/ cb_push_memcpy(t) /\ UNCHANGED logs
        \/ cb_push_publish(t) /\ LogPush(t) /\ got' = got
        \/ wrap_pop(t) /\ UNCHANGED logs
        \/ cb_pop_claim_seq(t) /\ UNCHANGED logs
        \/ cb_pop_claim_cas(t) /\ UNCHANGED logs
        \/ cb_pop_claim_cas_fail(t) /\ UNCHANGED logs
        \/ cb_pop_claim_store(t) /\ UNCHANGED logs
        \/ cb_pop_memcpy(t) /\ UNCHANGED logs
        \/ cb_pop_release(t) /\ LogPop(t) /\ put' = put

NextWrap == \E t \in {"p1", "c1"} : StepWrap(t)

SpecWrap == WrapInit /\ [][NextWrap]_vars

(* ================================================================ claims *)
Positions == 0..(Mod - 1)
capacity == mask + 1
Min(a, b) == IF a <= b THEN a ELSE b
\* thread t owns the slot of pos[t]: it claimed it and has not published / released it
InWrite(t) == pc[t] = "push_copy"
InRead(t) == pc[t] = "pop_copy"
Holds(t) == InWrite(t) \/ InRead(t)
\* pushes completed and not yet popped
Outstanding == Total(published) - Total(released)
\* positions claimed by producers and not yet released by a consumer
ClaimedUnreleased == Total(pushClaims) - Total(released)
\* positions a producer has published and no consumer has claimed
PublishedUnclaimed == {p \in Positions : published[p] > popClaims[p]}
\* the step in which cb_pop_claim / cb_push_claim reads seq and returns NULL
PopBlocks(t) == pc[t] = "pop_seq" /\ pc'[t] = "idle"
PushBlocks(t) == pc[t] = "push_seq" /\ pc'[t] = "idle"
\* the step in which a claim goes round its retry loop again
PushRetry(t) == pc[t] \in {"push_cas", "push_reload"} /\ pc'[t] = "push_seq"
PopRetry(t) == pc[t] \in {"pop_cas", "pop_reload"} /\ pc'[t] = "pop_seq"
InClaimLoop(t) ==
    pc[t] \in {"push_seq", "push_cas", "push_reload", "pop_seq", "pop_cas", "pop_reload"}
\* the driver is between two calls, the last one with a valid size
Returned == pc[Driver] = "idle" /\ call[Driver] # "none" /\ size[Driver] <= slot_size
\* Outstanding when the driver's last call began
Before ==
    IF ret[Driver] # RetOk THEN Outstanding
    ELSE IF call[Driver] = "push" THEN Outstanding - 1 ELSE Outstanding + 1
\* the messages the producers of the test push
Pushed ==
    UNION {args[t].start_seq..(args[t].start_seq + args[t].count - 1) :
             t \in Producers(mode)}
AllDone == \A t \in Running : pc[t] = "done"
IsPrefix(a, b) == Len(a) <= Len(b) /\ \A j \in 1..Len(a) : a[j] = b[j]

\* C1: in MPMC mode no position is returned by two successful push_claim
\* calls nor by two successful pop_claim calls, and a position a consumer
\* claims was claimed by a producer.
C1_UniqueClaims ==
    mode = "MPMC" =>
        \A p \in Positions :
            /\ pushClaims[p] <= 1
            /\ popClaims[p] <= 1
            /\ popClaims[p] <= pushClaims[p]

C1_Witness ==
    /\ mode = "MPMC"
    /\ InWrite("p1") /\ InWrite("p2")
    /\ pos["p1"] # pos["p2"]
    /\ Total(popClaims) = 2

\* C2: two threads never own the same slot at the same time (a producer
\* between claim and publish, a consumer between claim and release, for
\* positions of any lap), and while the consumer of position p copies out,
\* the slot holds the cells the producer of p copied in, which is what it reads.
C2_Windows ==
    /\ \A t, u \in Threads :
          (t # u /\ Holds(t) /\ Holds(u)) => cb_slot(pos[t]) # cb_slot(pos[u])
    /\ \A t \in Threads :
          InRead(t) =>
             /\ published[pos[t]] = 1
             /\ Len(sent[pos[t]]) = size[t]
             /\ SubSeq(data[cb_slot(pos[t])], 1, size[t]) = sent[pos[t]]
             /\ SubSeq(buf[t], 1, k[t]) = SubSeq(sent[pos[t]], 1, k[t])

C2_Witness ==
    \E t, u \in Threads :
        /\ InRead(t) /\ k[t] = size[t] /\ size[t] > 0
        /\ pos[t] >= capacity
        /\ InWrite(u) /\ k[u] > 0

\* C3: in SPSC mode what the successful pops returned, in order, is a prefix
\* of what the successful pushes passed, in the order the producer issued them.
C3_Fifo ==
    mode = "SPSC" =>
        /\ IsPrefix(got["c1"], put["p1"])
        /\ \A j \in 1..Len(put["p1"]) : put["p1"][j] = Message(j - 1)

C3_Witness ==
    /\ mode = "SPSC"
    /\ Len(got["c1"]) = MSG_COUNT
    /\ got["c1"] = put["p1"]

\* C4: when every producer retries each push and every consumer each pop
\* until it succeeds, then under fair scheduling all threads finish and each
\* pushed message has been popped exactly once, without error: main() finds
\* the received_tracker entry of every pushed message at 1, counts as missing
\* only the messages no producer was given (MSG_COUNT not divisible by the
\* number of producers), and returns 0 when there is none.
C4_Delivered ==
    /\ \A t \in Running : errors[t] = 0
    /\ \A m \in Pushed : tracker[m] = 1
    /\ AllDone
    /\ pc[Driver] = "done"
    /\ errors[Driver] = Cardinality(DOMAIN tracker \ Pushed)
    /\ ret[Driver] = IF DOMAIN tracker \subseteq Pushed THEN 0 ELSE 1

\* the weak compare-exchange of thread t fails in this step although the
\* counter holds the value t expects
SpuriousFail(t) ==
    \/ pc[t] = "push_cas" /\ head = pos[t] /\ pc'[t] = "push_seq"
    \/ pc[t] = "pop_cas" /\ tail = pos[t] /\ pc'[t] = "pop_seq"

C5_FillToCapacity ==
    /\ (Returned /\ call[Driver] = "push") =>
          /\ ret[Driver] \in {RetOk, RetWouldBlock}
          /\ ret[Driver] = RetWouldBlock <=> Before = capacity
    /\ Outstanding <= capacity
    /\ \A p \in Positions :
          published[p] > released[p] =>
             SubSeq(data[cb_slot(p)], 1, Len(sent[p])) = sent[p]

C5_Witness ==
    /\ Returned /\ call[Driver] = "push" /\ ret[Driver] = RetWouldBlock
    /\ Total(released) = 1
    /\ Total(published) = capacity + 1

\* C6: when as many pops as pushes have completed the ring is empty: a pop
\* returns WouldBlock and a push succeeds.
C6_EmptyAfterPairs ==
    (Returned /\ Before = 0) =>
        /\ call[Driver] = "pop" => ret[Driver] = RetWouldBlock
        /\ call[Driver] = "push" => ret[Driver] = RetOk

C6_Witness ==
    /\ Returned /\ call[Driver] = "pop" /\ ret[Driver] = RetWouldBlock
    /\ capacity = 4
    /\ Total(published) > capacity
    /\ Total(released) = Total(published)

\* C7: push(b, n) on a ring that holds nothing else, then pop(x, n'): both
\* return Ok and x equals b in the first min(n, n') cells.
C7_RoundTrip ==
    /\ (Returned /\ call[Driver] = "pop" /\ Before = 1) => ret[Driver] = RetOk
    /\ (InRead(Driver) /\ k[Driver] = size[Driver] /\ Outstanding = 1) =>
          LET b == DriverBuffer(Total(published) - 1)
              n == Len(sent[pos[Driver]])
          IN /\ published[pos[Driver]] > released[pos[Driver]]
             /\ sent[pos[Driver]] = SubSeq(b, 1, n)
             /\ \A j \in 1..Min(n, size[Driver]) : buf[Driver][j] = b[j]

C7_Witness ==
    /\ InRead(Driver) /\ k[Driver] = size[Driver] /\ Outstanding = 1
    /\ size[Driver] = SlotSize
    /\ Len(sent[pos[Driver]]) = SlotSize
    /\ pos[Driver] > capacity

\* C8 as stated: pop_claim returns WouldBlock only when no position is
\* published and unclaimed.
C8_Original ==
    [][\A t \in Threads : PopBlocks(t) => PublishedUnclaimed = {}]_vars

\* C8: pop_claim returns WouldBlock only when the position at tail is not
\* published; in SPSC mode no position is published and unclaimed then.
C8_Amended ==
    [][\A t \in Threads :
          PopBlocks(t) =>
             /\ pos[t] = tail
             /\ tail \notin PublishedUnclaimed
             /\ mode = "SPSC" => PublishedUnclaimed = {}]_vars

C8_Witness ==
    /\ mode = "MPMC"
    /\ \E t \in AllConsumers :
          pc[t] = "idle" /\ call[t] = "pop" /\ ret[t] = RetWouldBlock
    /\ PublishedUnclaimed # {}
    /\ tail \notin PublishedUnclaimed

\* C9 as stated: push_claim returns WouldBlock only when exactly capacity
\* positions are claimed by producers and not released.
C9_Original ==
    [][\A t \in Threads : PushBlocks(t) => ClaimedUnreleased = capacity]_vars

\* C9: push_claim returns WouldBlock only when the position one lap behind
\* head is claimed and not released; in SPSC mode exactly capacity positions
\* are claimed and not released then.
C9_Amended ==
    [][\A t \in Threads :
          PushBlocks(t) =>
             /\ pos[t] = head
             /\ pushClaims[U32(head - capacity)] > released[U32(head - capacity)]
             /\ mode = "SPSC" => ClaimedUnreleased = capacity]_vars

C9_Witness ==
    /\ mode = "MPMC"
    /\ \E t \in AllProducers :
          pc[t] = "idle" /\ call[t] = "push" /\ ret[t] = RetWouldBlock
    /\ ClaimedUnreleased < capacity

ClaimReturns == \E t \in Threads : InClaimLoop(t) /\ ~InClaimLoop(t)'

C11_Wraparound ==
    /\ [](/\ IsPrefix(got["c1"], put["p1"])
          /\ \A j \in 1..Len(put["p1"]) : put["p1"][j] = DriverBuffer(j - 1)
          /\ ClaimedUnreleased \in 0..capacity
          /\ Total(popClaims) <= Total(published))
    /\ [][\A t \in Threads :
            /\ PushBlocks(t) => ClaimedUnreleased = capacity
            /\ PopBlocks(t) => Total(published) = Total(popClaims)]_vars

C11_Witness ==
    /\ mode = "MPMC" /\ capacity = 4
    /\ Len(got["c1"]) = WrapCount /\ got["c1"] = put["p1"]
    /\ Total(released) > Mod
    /\ head = U32(WrapCount) /\ tail = head
    /\ \A n \in WrapCount..(WrapCount + mask) : seq[cb_slot(U32(n))] = U32(n)

\* a step in which cb_push / cb_pop is called and returns at once
RejectedCall(t) == pc[t] = "idle" /\ pc'[t] = "idle" /\ call'[t] \in {"push", "pop"}

\* C12: cb_push and cb_pop with size > slot_size return -EINVAL, which is
\* neither 0 nor -1, without claiming anything: head, tail, every seq and
\* every payload cell stay as they were, whatever the ring holds; a size up
\* to slot_size is never rejected.
C12_InvalidSize ==
    /\ [](/\ -EINVAL \notin {RetOk, RetWouldBlock}
          /\ \A t \in Threads :
                /\ pc[t] \notin {"idle", "off", "done"} => size[t] <= slot_size
                /\ (pc[t] = "idle" /\ call[t] # "none") =>
                      (ret[t] = -EINVAL <=> size[t] > slot_size))
    /\ [][\A t \in Threads : RejectedCall(t) =>
            /\ size'[t] > slot_size
            /\ ret'[t] = -EINVAL
            /\ UNCHANGED <<head, tail, seq, data, setup, ghost>>]_vars

C12_Witness ==
    /\ pc[Driver] = "idle" /\ call[Driver] = "pop" /\ ret[Driver] = -EINVAL
    /\ size[Driver] = slot_size + 1
    /\ capacity = 4 /\ Outstanding = capacity

\* the powers of two from 2 up, written out
PowersOfTwo == {2 ^ e : e \in 1..(W + 3)}
\* the last call was cb_init with an argument the contract forbids
BadInitArgs ==
    \/ ~cargs.cb
    \/ ~cargs.alloc.alloc
    \/ cargs.capacity \notin PowersOfTwo
    \/ cargs.slot_size = 0

\* the driver's last call has returned
HasReturned == pc[Driver] # "trapped"

\* C13: cb_init returns -EINVAL exactly when the handle or alloc.alloc is
\* NULL, the capacity is not a power of two >= 2 or slot_size is 0, and then
\* it has not called the allocator and has written nothing; otherwise it
\* calls the allocator and, when it returns, returns -ENOMEM exactly when
\* alloc.alloc returned NULL, and 0 otherwise.
C13_InitResult ==
    /\ [](call[Driver] = "init" =>
            /\ ret[Driver] = -EINVAL <=> BadInitArgs
            /\ BadInitArgs <=> ~cargs.called
            /\ BadInitArgs => HasReturned
            /\ cargs.answer = 0 => HasReturned
            /\ (~BadInitArgs /\ HasReturned) =>
                  /\ ret[Driver] = -ENOMEM <=> cargs.answer = 0
                  /\ ret[Driver] = RetOk <=> cargs.answer # 0
                  /\ ret[Driver] \in {-ENOMEM, RetOk})
    /\ [][(call'[Driver] = "init" /\ ret'[Driver] = -EINVAL) =>
            UNCHANGED <<heap, mask, slot_size, stride, slots, alloc,
                        head, tail, seq, data>>]_vars

C13_Witness ==
    /\ call[Driver] = "init" /\ ret[Driver] = -EINVAL
    /\ cargs.cb /\ cargs.alloc.alloc /\ cargs.slot_size = SlotSize
    /\ cargs.capacity = 6
    /\ slots = Indet /\ heap = <<>>

\* a step in which cb_free is called
FreeCall == call'[Driver] = "free"

\* C14: with a cb_free between a successful cb_init and the next cb_init,
\* alloc.free is called exactly once on every region a cb_init obtained
\* (never, for an allocator that has no free function) and on nothing after
\* a cb_init that failed; cb_free on a handle whose slots are NULL calls
\* nothing and changes nothing, so a second cb_free leaves what the first left.
C14_FreeOnce ==
    /\ [](\A r \in 1..Len(heap) :
            heap[r].frees = IF r # slots /\ heap[r].owner.free THEN 1 ELSE 0)
    /\ [][FreeCall =>
            IF slots = 0
            THEN UNCHANGED <<setup, head, tail, seq, data>>
            ELSE \/ UNCHANGED <<setup, head, tail, seq, data>>
                 \/ /\ slots' = 0
                    /\ heap' = [heap EXCEPT ![slots].frees =
                                   IF alloc.free THEN @ + 1 ELSE @]
                    /\ UNCHANGED <<mask, slot_size, stride, alloc, head, tail, seq, data>>]_vars

C14_Witness ==
    /\ call[Driver] = "free" /\ slots = 0
    /\ Len(heap) = MaxInits
    /\ \A r \in 1..Len(heap) : heap[r].frees = 1
    /\ heap[1].bytes # heap[2].bytes
    /\ ret[Driver] = -ENOMEM

\* the driver's last call was a cb_init that returned 0
InitOk == call[Driver] = "init" /\ ret[Driver] = RetOk
\* the driver's last call was a cb_push / cb_pop that has returned
LifeReturned == pc[Driver] = "idle" /\ call[Driver] \in {"push", "pop"}

\* C19: a cb_init that returns 0 leaves head = 0, tail = 0, mask =
\* capacity - 1 and seq[i] = i for every slot i, read through cb_slot, also
\* on a handle that held a ring of another capacity before; from there the
\* ring is a fresh empty one: a pop on it finds nothing, a push succeeds
\* until capacity messages wait, and a pop yields the oldest message pushed
\* since that cb_init.
C19_InitState ==
    /\ InitOk =>
          /\ Live /\ slots = Len(heap)
          /\ head = 0 /\ tail = 0
          /\ mask = cargs.capacity - 1
          /\ slot_size = cargs.slot_size
          /\ DOMAIN seq = 0..(cargs.capacity - 1)
          /\ \A s \in DOMAIN seq : seq[s] = s
    /\ (LifeReturned /\ call[Driver] = "push") =>
          /\ ret[Driver] \in {RetOk, RetWouldBlock}
          /\ ret[Driver] = RetWouldBlock <=> Before = capacity
    /\ (LifeReturned /\ call[Driver] = "pop") =>
          /\ ret[Driver] \in {RetOk, RetWouldBlock}
          /\ ret[Driver] = RetWouldBlock <=> Before = 0
          /\ ret[Driver] = RetOk => buf[Driver] = DriverBuffer(Total(released) - 1)

\* bytes one slot record needs: the seq field and slot_size payload bytes
SlotBytes == SizeofSlot + cargs.slot_size
\* the least multiple of the alignment that holds a slot record
TrueStride == SlotBytes + ((AlignofSlot - (SlotBytes % AlignofSlot)) % AlignofSlot)

\* C20: after a cb_init that returns 0 the stored stride is
\* align_up(sizeof(seq) + slot_size, alignof(seq)) and at least
\* sizeof(seq) + slot_size, the allocator was asked for capacity x stride
\* bytes, every slot record lies inside the region and no two overlap.
C20_Layout ==
    InitOk =>
        /\ stride = TrueStride
        /\ stride >= SlotBytes
        /\ heap[slots].bytes = cargs.capacity * stride
        /\ \A s \in 0..(cargs.capacity - 1) :
              SlotOffset(s, stride) + SlotBytes <= heap[slots].bytes
        /\ \A s1, s2 \in 0..(cargs.capacity - 1) :
              s1 < s2 => SlotOffset(s1, stride) + SlotBytes <= SlotOffset(s2, stride)

RECURSIVE SlotSum(_, _)
\* calls counted by f over the positions p, p + capacity, p + 2 capacity, ...
SlotSum(f, p) == IF p >= Mod THEN 0 ELSE f[p] + SlotSum(f, p + capacity)
\* messages published into slot s, and messages released from it
Pubs(s) == SlotSum(published, s)
Rels(s) == SlotSum(released, s)
\* the position slot s serves in its current lap: s, s + capacity, ...
LapPos(s) == U32(s + capacity * Rels(s))

\* C16: the seq of slot i is p or p + 1 for a position p of that slot
\* (p & mask = i): it is p exactly while the slot is free for the producer
\* of p (the lap before is released, p is not published), and p + 1 exactly
\* while p is published and not yet released.
C16_SeqInvariant ==
    \A s \in DOMAIN seq :
        LET d == Pubs(s) - Rels(s)
            p == LapPos(s)
        IN /\ cb_slot(p) = s
           /\ d \in {0, 1}
           /\ p # U32(p + 1)
           /\ seq[s] = IF d = 0 THEN p ELSE U32(p + 1)

C16_Witness ==
    /\ mode = "MPMC"
    /\ \E s1, s2 \in DOMAIN seq :
          /\ Rels(s1) > 0 /\ Pubs(s1) > Rels(s1) /\ seq[s1] = U32(LapPos(s1) + 1)
          /\ Rels(s2) > 0 /\ Pubs(s2) = Rels(s2) /\ seq[s2] = LapPos(s2)
          /\ \E t \in AllProducers : InWrite(t) /\ pos[t] = LapPos(s2)

\* thread t comes out of a successful claim in this step
ClaimsPush(t) == pc'[t] = "push_copy" /\ pc[t] # "push_copy"
ClaimsPop(t) == pc'[t] = "pop_copy" /\ pc[t] # "pop_copy"
\* head and tail move by +1, in the step of a successful claim and only there
HeadTailStep ==
    /\ head' # head =>
          /\ head' = U32(head + 1)
          /\ \E t \in Threads : ClaimsPush(t) /\ out_pos'[t] = head
    /\ tail' # tail =>
          /\ tail' = U32(tail + 1)
          /\ \E t \in Threads : ClaimsPop(t) /\ out_pos'[t] = tail
    /\ \A t \in Threads :
          /\ ClaimsPush(t) => head' = U32(head + 1)
          /\ ClaimsPop(t) => tail' = U32(tail + 1)

\* C17: head never falls behind tail nor runs more than capacity ahead of
\* it: no consumer claims a position that is not published, no producer a
\* position whose slot the lap before has not given back; head and tail
\* move only by +1, in the step of a successful claim.
C17_HeadTail ==
    /\ [](/\ U32(head - tail) \in 0..capacity
          /\ head = U32(Total(pushClaims))
          /\ tail = U32(Total(popClaims))
          /\ \A p \in Positions :
                /\ popClaims[p] <= published[p]
                /\ (pushClaims[p] > 0 /\ p >= capacity) => released[p - capacity] > 0)
    /\ [][HeadTailStep]_vars

C17_Witness ==
    /\ mode = "MPMC"
    /\ tail > 0
    /\ U32(head - tail) = capacity
    /\ \E t \in AllProducers : InWrite(t) /\ pos[t] = U32(head - 1)

\* C18: a claim that gives up writes nothing: head, tail, every seq, every
\* payload cell and the caller's pos are as before; in the MPMC build head
\* and tail change only in a compare-exchange that found the value it
\* expected.
C18_BlockedClaimFrame ==
    [][/\ \A t \in Threads :
             (PushBlocks(t) \/ PopBlocks(t)) =>
                 /\ UNCHANGED <<head, tail, seq, data>>
                 /\ out_pos'[t] = out_pos[t]
                 /\ ret'[t] = RetWouldBlock
       /\ mode = "MPMC" =>
             /\ head' # head =>
                   \E t \in Threads : /\ pc[t] = "push_cas" /\ pc'[t] = "push_copy"
                                       /\ pos[t] = head /\ head' = U32(pos[t] + 1)
             /\ tail' # tail =>
                   \E t \in Threads : /\ pc[t] = "pop_cas" /\ pc'[t] = "pop_copy"
                                       /\ pos[t] = tail /\ tail' = U32(pos[t] + 1)]_vars

C18_Witness ==
    /\ mode = "MPMC"
    /\ \E t \in AllProducers :
          /\ pc[t] = "idle" /\ call[t] = "push" /\ ret[t] = RetWouldBlock
          /\ out_pos[t] = Indet
    /\ \E t \in AllConsumers :
          /\ pc[t] = "idle" /\ call[t] = "pop" /\ ret[t] = RetWouldBlock
          /\ out_pos[t] = Indet
    /\ head > 0
====
